---- MODULE Spec2Model ----
(***************************************************************************)
(* csv_to_kml: conversion of a drone flight log (CSV) to a KML gx:Track.   *)
(*                                                                         *)
(* Two programs are modelled: the command-line converter csv_to_kml.py     *)
(* (specification Spec, and SpecResolve for its column detection alone)    *)
(* and the batch converter csv-to-kml_iphone.py (specification SpecBatch). *)
(*                                                                         *)
(* A Python str is a sequence of one-character strings, so that strip(),   *)
(* lower(), len(), the `in` substring test, float() and the formatting of  *)
(* a float are computed character by character.  None is the value None.   *)
(***************************************************************************)
EXTENDS Integers, Sequences, FiniteSets

VARIABLES
  pc,                   \* position of the program
  csv_files,            \* the input files: the CLI's argv[1], or main's listing of the input directory
  cur,                  \* main's loop index into csv_files (the file being converted)
  fieldnames,           \* reader.fieldnames of the open file
  ts_col, lat_col, lon_col, ele_col,   \* the detected columns
  consumed,             \* the rows the reader has yielded so far, in order
  float_calls,          \* how many float() calls the loop body made for the last row
  track,                \* children of the gx:Track element, in document order
  rows_written, rows_skipped, rows_invalid_coords, total_rows,
  kml_files,            \* kml_files[i]: the KML the conversion of csv_files[i] wrote, or None
  stdout,               \* what the CLI printed, line group by line group
  exit_status,          \* the CLI's exit status, -1 while it runs
  logs,                 \* main's list of the logs process_csv returned
  log                   \* process_csv's log of the file being converted

vars == <<pc, csv_files, cur, fieldnames, ts_col, lat_col, lon_col, ele_col, consumed,
          float_calls, track, rows_written, rows_skipped, rows_invalid_coords, total_rows,
          kml_files, stdout, exit_status, logs, log>>

----------------------------------------------------------------------------
(* Bounds of the model *)

\* rows read from one file
MaxRows == 2

\* headers of a file, where every header list over HeaderPool is explored
MaxHeaders == 3

\* files in the input directory of the batch converter
MaxFiles == 2

----------------------------------------------------------------------------
(* Python values *)

\* None; no str equals it, since a str holds one-character strings only
None == <<"None">>

\* reader.fieldnames of a file without a header row: None, written as a list
\* that holds None, which no list of headers (of str) equals
NoFieldnames == <<None>>

\* bool(x) of a str or None
Truthy(x) == x # None /\ x # <<>>

\* the characters str.strip() removes (of those that occur in the model)
Whitespace == {" ", "\t"}

Digits == {"0", "1", "2", "3", "4", "5", "6", "7", "8", "9"}

SetMin(S) == CHOOSE x \in S : \A y \in S : x <= y

SetMax(S) == CHOOSE x \in S : \A y \in S : x >= y

\* s.strip()
Strip(s) ==
  LET keep == {i \in 1..Len(s) : s[i] \notin Whitespace}
  IN  IF keep = {} THEN <<>> ELSE SubSeq(s, SetMin(keep), SetMax(keep))

LowerChar(c) ==
  CASE c = "A" -> "a"
    [] c = "B" -> "b"
    [] c = "C" -> "c"
    [] c = "D" -> "d"
    [] c = "E" -> "e"
    [] c = "F" -> "f"
    [] c = "G" -> "g"
    [] c = "H" -> "h"
    [] c = "I" -> "i"
    [] c = "J" -> "j"
    [] c = "K" -> "k"
    [] c = "L" -> "l"
    [] c = "M" -> "m"
    [] c = "N" -> "n"
    [] c = "O" -> "o"
    [] c = "P" -> "p"
    [] c = "Q" -> "q"
    [] c = "R" -> "r"
    [] c = "S" -> "s"
    [] c = "T" -> "t"
    [] c = "U" -> "u"
    [] c = "V" -> "v"
    [] c = "W" -> "w"
    [] c = "X" -> "x"
    [] c = "Y" -> "y"
    [] c = "Z" -> "z"
    [] OTHER -> c

\* s.lower()
Lower(s) == IF s = <<>> THEN <<>> ELSE [i \in 1..Len(s) |-> LowerChar(s[i])]

\* the test `a in s` of two str
IsSubstr(a, s) == \E i \in 0..(Len(s) - Len(a)) : SubSeq(s, i + 1, i + Len(a)) = a

\* x or "" of a cell: None and "" both give ""
OrEmpty(x) == IF Truthy(x) THEN x ELSE <<>>

----------------------------------------------------------------------------
(* float(s) and the formatting of a float.  A float is modelled exactly, as a
   decimal: its sign, the digits of its integer part without leading zeros
   (none for 0) and the digits of its fraction without trailing zeros.  The
   cells of the model are plain decimal literals, short enough for a float64
   to hold them exactly; exponents, inf and nan do not occur in them. *)

\* float(s) raised ValueError
NotAFloat == [ok |-> FALSE, neg |-> FALSE, ip |-> <<>>, fp |-> <<>>]

DropLeadingZeros(d) ==
  LET nz == {i \in 1..Len(d) : d[i] # "0"}
  IN  IF nz = {} THEN <<>> ELSE SubSeq(d, SetMin(nz), Len(d))

DropTrailingZeros(d) ==
  LET nz == {i \in 1..Len(d) : d[i] # "0"}
  IN  IF nz = {} THEN <<>> ELSE SubSeq(d, 1, SetMax(nz))

\* float(s): optional whitespace around [sign] digits [. digits] or [sign] . digits
ParseFloat(s) ==
  LET t     == Strip(s)
      signd == t # <<>> /\ t[1] \in {"+", "-"}
      body  == IF signd THEN Tail(t) ELSE t
      dots  == {i \in 1..Len(body) : body[i] = "."}
      wellf == /\ \A i \in 1..Len(body) : body[i] \in Digits \cup {"."}
               /\ Cardinality(dots) <= 1
               /\ \E i \in 1..Len(body) : body[i] \in Digits
      dot   == IF dots = {} THEN Len(body) + 1 ELSE SetMin(dots)
  IN  IF ~wellf THEN NotAFloat
      ELSE [ok  |-> TRUE,
            neg |-> signd /\ t[1] = "-",
            ip  |-> DropLeadingZeros(SubSeq(body, 1, dot - 1)),
            fp  |-> DropTrailingZeros(SubSeq(body, dot + 1, Len(body)))]

\* x == 0.0 of a float: -0.0 equals 0.0
IsZero(x) == x.ip = <<>> /\ x.fp = <<>>

\* f"{x}" of a float: repr, the shortest decimal that reads back as x
FloatStr(x) ==
  (IF x.neg THEN <<"-">> ELSE <<>>)
    \o (IF x.ip = <<>> THEN <<"0">> ELSE x.ip)
    \o <<".">>
    \o (IF x.fp = <<>> THEN <<"0">> ELSE x.fp)

----------------------------------------------------------------------------
(* Column detection *)

POSSIBLE_HEADERS ==
  [ timestamp |-> <<  \* timestamp, time, time_utc, datetime, date_time, gpstime, utc_time
        <<"t","i","m","e","s","t","a","m","p">>,
        <<"t","i","m","e">>,
        <<"t","i","m","e","_","u","t","c">>,
        <<"d","a","t","e","t","i","m","e">>,
        <<"d","a","t","e","_","t","i","m","e">>,
        <<"g","p","s","t","i","m","e">>,
        <<"u","t","c","_","t","i","m","e">> >>
  , latitude |-> <<  \* latitude, lat, lat_deg, lat_dd, latitude_deg
        <<"l","a","t","i","t","u","d","e">>,
        <<"l","a","t">>,
        <<"l","a","t","_","d","e","g">>,
        <<"l","a","t","_","d","d">>,
        <<"l","a","t","i","t","u","d","e","_","d","e","g">> >>
  , longitude |-> <<  \* longitude, lon, long, lng, lon_deg, lon_dd, longitude_deg
        <<"l","o","n","g","i","t","u","d","e">>,
        <<"l","o","n">>,
        <<"l","o","n","g">>,
        <<"l","n","g">>,
        <<"l","o","n","_","d","e","g">>,
        <<"l","o","n","_","d","d">>,
        <<"l","o","n","g","i","t","u","d","e","_","d","e","g">> >>
  , elevation |-> <<  \* elevation, altitude, alt, height, elev, alt_m
        <<"e","l","e","v","a","t","i","o","n">>,
        <<"a","l","t","i","t","u","d","e">>,
        <<"a","l","t">>,
        <<"h","e","i","g","h","t">>,
        <<"e","l","e","v">>,
        <<"a","l","t","_","m">> >>
  ]

Fields == {"timestamp", "latitude", "longitude", "elevation"}

\* the key of a header in lower_to_original: h.strip().lower()
HeaderKey(h) == Lower(Strip(h))

\* lower_to_original.items(): a dict keeps its keys in the order they were first
\* inserted, each with the value written last; headers that are "" are left out
lower_to_original(headers) ==
  LET kept   == SelectSeq(headers, LAMBDA h : Truthy(h))
      idx    == [i \in 1..Len(kept) |-> i]
      firsts == SelectSeq(idx, LAMBDA i : \A j \in 1..(i - 1) : HeaderKey(kept[j]) # HeaderKey(kept[i]))
      last(i) == SetMax({j \in 1..Len(kept) : HeaderKey(kept[j]) = HeaderKey(kept[i])})
  IN  [n \in 1..Len(firsts) |->
         [lower |-> HeaderKey(kept[firsts[n]]), orig |-> kept[last(firsts[n])]]]

\* candidates of one alias: the original headers whose key contains it, in dict order
candidates(items, name) == SelectSeq(items, LAMBDA it : IsSubstr(name, it.lower))

\* candidates.sort(key=len); candidates[0]: the sort is stable and its key is the
\* length of the original header
ShortestFirst(cands) ==
  LET best == {i \in 1..Len(cands) :
                 \A j \in 1..Len(cands) : Len(cands[i].orig) <= Len(cands[j].orig)}
  IN  cands[SetMin(best)].orig

\* find_column with its two loops merged: each alias is tried exactly, then as a substring
find_column_one_pass(headers, possible_names) ==
  IF headers = NoFieldnames \/ headers = <<>> THEN None
  ELSE LET items == lower_to_original(headers)
           hit   == {n \in 1..Len(possible_names) :
                       candidates(items, possible_names[n]) # <<>>}
       IN  IF hit = {} THEN None
           ELSE LET name  == possible_names[SetMin(hit)]
                    exact == {k \in 1..Len(items) : items[k].lower = name}
                IN  IF exact # {} THEN items[SetMin(exact)].orig
                    ELSE ShortestFirst(candidates(items, name))

find_column(headers, possible_names) ==
  IF headers = NoFieldnames \/ headers = <<>> THEN None
  ELSE LET items == lower_to_original(headers)
           exact == {n \in 1..Len(possible_names) :
                       \E k \in 1..Len(items) : items[k].lower = possible_names[n]}
           sub   == {n \in 1..Len(possible_names) :
                       candidates(items, possible_names[n]) # <<>>}
       IN  IF exact # {}
             THEN LET name == possible_names[SetMin(exact)]
                  IN  items[CHOOSE k \in 1..Len(items) : items[k].lower = name].orig
           ELSE IF sub # {}
             THEN ShortestFirst(candidates(items, possible_names[SetMin(sub)]))
           ELSE None

\* all([ts_col, lat_col, lon_col, ele_col]) with `any` in the place of `all`
AnyResolved(t, la, lo, e) == Truthy(t) \/ Truthy(la) \/ Truthy(lo) \/ Truthy(e)

\* all([ts_col, lat_col, lon_col, ele_col])
AllResolved(t, la, lo, e) == Truthy(t) /\ Truthy(la) /\ Truthy(lo) /\ Truthy(e)

----------------------------------------------------------------------------
(* Inputs *)

H_Time_UTC == <<"T","i","m","e"," ","(","U","T","C",")">>  \* 'Time (UTC)'
H_Lat == <<"L","a","t">>  \* 'Lat'
H_lat == <<"l","a","t">>  \* 'lat'
H_Lon == <<"L","o","n">>  \* 'Lon'
H_Alt_m == <<"A","l","t","_","m">>  \* 'Alt_m'
H_latitude_x == <<"l","a","t","i","t","u","d","e","_","x">>  \* 'latitude_x'
H_lat_lon == <<"l","a","t","_","l","o","n">>  \* 'lat_lon'
H_x_lat_padded == <<" ","x","_","l","a","t"," "," "," ">>  \* ' x_lat   '
H_timestamp == <<"t","i","m","e","s","t","a","m","p">>  \* 'timestamp'
H_latitude == <<"l","a","t","i","t","u","d","e">>  \* 'latitude'
H_longitude == <<"l","o","n","g","i","t","u","d","e">>  \* 'longitude'

\* every header list of SpecResolve is built from these headers and ""
HeaderPool ==
  {H_Time_UTC, H_Lat, H_lat, H_Lon, H_Alt_m, H_latitude_x, H_lat_lon, H_x_lat_padded, <<>>}

RECURSIVE SeqsUpTo(_, _)
SeqsUpTo(S, n) ==
  IF n = 0 THEN {<<>>}
  ELSE LET shorter == SeqsUpTo(S, n - 1)
       IN  shorter \cup {Append(s, x) : s \in {t \in shorter : Len(t) = n - 1}, x \in S}

\* reader.fieldnames in SpecResolve: None for an empty file, or a header list
ResolveHeaderLists == {NoFieldnames} \cup SeqsUpTo(HeaderPool, MaxHeaders)

\* reader.fieldnames in Spec: the headers of Scenarios 1 and 2, and a file whose
\* coordinates share one column
RunHeaderLists ==
  { <<H_Time_UTC, H_Lat, H_Lon, H_Alt_m>>,
    <<H_timestamp, H_latitude, H_longitude>>,
    <<H_Time_UTC, H_lat_lon, H_Alt_m>> }

\* reader.fieldnames in SpecBatch
BatchHeaderLists ==
  { <<H_Time_UTC, H_Lat, H_Lon, H_Alt_m>>,
    <<H_timestamp, H_latitude, H_longitude>> }

\* the cells of a row in Spec; None is the cell of a row too short to have it
TsCells  == { None, <<" ">>, <<"t","1"," ">> }
LatCells == { <<"0",".","0">>, <<" ","1",".","5">>, <<"a","b","c">> }
LonCells == { <<"-","0">>, <<"2">>, <<>> }
EleCells == { <<"0",".","0">>, <<"3","m">> }

\* the cells of a row in SpecBatch
BatchTsCells  == { <<" ">>, <<"t","1"," ">> }
BatchLatCells == { <<"0",".","0">>, <<" ","1",".","5">> }
BatchLonCells == { <<"2">> }
BatchEleCells == { <<"7">>, <<"3","m">> }

\* a row of the DictReader: a dict from header to cell, of which the detected
\* columns are kept (the other columns are never read)
RowOf(t, la, lo, e) ==
  [h \in {ts_col, lat_col, lon_col, ele_col} \ {None} |->
     IF h = ts_col THEN t ELSE IF h = lat_col THEN la ELSE IF h = lon_col THEN lo ELSE e]

Rows(T, LA, LO, E) == {RowOf(t, la, lo, e) : t \in T, la \in LA, lo \in LO, e \in E}

\* row.get(col)
Get(row, col) == IF col \in DOMAIN row THEN row[col] ELSE None

----------------------------------------------------------------------------
(* The loop body of csv_to_kml and process_csv *)

\* (row.get(col) or "").strip()
Cell(row, col) == Strip(OrEmpty(Get(row, col)))

\* the loop body with the zero test before float(ele_s)
ClassifyZeroFirst(ts_val, lat_s, lon_s, ele_s) ==
  LET lat == ParseFloat(lat_s)
      lon == ParseFloat(lon_s)
      ele == ParseFloat(ele_s)
      r(b, n) == [branch |-> b, calls |-> n, lat |-> lat, lon |-> lon, ele |-> ele]
  IN  IF ~Truthy(ts_val) THEN r("no_timestamp", 0)
      ELSE IF ~lat.ok THEN r("value_error", 1)
      ELSE IF ~lon.ok THEN r("value_error", 2)
      ELSE IF IsZero(lat) \/ IsZero(lon) THEN r("zero_coord", 2)
      ELSE IF ~ele.ok THEN r("value_error", 3)
      ELSE r("written", 3)

\* the loop body with `and` in the place of `or` in the zero test
ClassifyBothZero(ts_val, lat_s, lon_s, ele_s) ==
  LET lat == ParseFloat(lat_s)
      lon == ParseFloat(lon_s)
      ele == ParseFloat(ele_s)
      r(b, n) == [branch |-> b, calls |-> n, lat |-> lat, lon |-> lon, ele |-> ele]
  IN  IF ~Truthy(ts_val) THEN r("no_timestamp", 0)
      ELSE IF ~lat.ok THEN r("value_error", 1)
      ELSE IF ~lon.ok THEN r("value_error", 2)
      ELSE IF ~ele.ok THEN r("value_error", 3)
      ELSE IF IsZero(lat) /\ IsZero(lon) THEN r("zero_coord", 3)
      ELSE r("written", 3)

\* the path the loop body takes for one row: the empty-timestamp test, the
\* three float() calls in order (the first ValueError ends the body), the zero test
Classify(ts_val, lat_s, lon_s, ele_s) ==
  LET lat == ParseFloat(lat_s)
      lon == ParseFloat(lon_s)
      ele == ParseFloat(ele_s)
      r(b, n) == [branch |-> b, calls |-> n, lat |-> lat, lon |-> lon, ele |-> ele]
  IN  IF ~Truthy(ts_val) THEN r("no_timestamp", 0)
      ELSE IF ~lat.ok THEN r("value_error", 1)
      ELSE IF ~lon.ok THEN r("value_error", 2)
      ELSE IF ~ele.ok THEN r("value_error", 3)
      ELSE IF IsZero(lat) \/ IsZero(lon) THEN r("zero_coord", 3)
      ELSE r("written", 3)

\* rows_skipped with the increment of the except clause left out
SkippedAfterNoExcept(n, branch) == IF branch = "no_timestamp" THEN n + 1 ELSE n

\* rows_skipped after a row: incremented for an empty timestamp and in the except clause
SkippedAfter(n, branch) == IF branch \in {"no_timestamp", "value_error"} THEN n + 1 ELSE n

\* coord.text with latitude first
CoordTextLatFirst(lon, lat, ele) ==
  FloatStr(lat) \o <<" ">> \o FloatStr(lon) \o <<" ">> \o FloatStr(ele)

\* coord.text = f"{lon} {lat} {ele}"
CoordText(lon, lat, ele) ==
  FloatStr(lon) \o <<" ">> \o FloatStr(lat) \o <<" ">> \o FloatStr(ele)

\* SubElement(track, tag) with its text
Elem(tag, text) == [tag |-> tag, text |-> text]

ProcessRow(row) ==
  /\ pc = "rows"
  /\ total_rows < MaxRows
  /\ total_rows' = total_rows + 1
  /\ consumed' = Append(consumed, row)
  /\ LET ts_val == Cell(row, ts_col)
         c      == Classify(ts_val, Cell(row, lat_col), Cell(row, lon_col), Cell(row, ele_col))
     IN  /\ float_calls' = c.calls
         /\ rows_skipped' = SkippedAfter(rows_skipped, c.branch)
         /\ rows_invalid_coords' =
              IF c.branch = "zero_coord" THEN rows_invalid_coords + 1 ELSE rows_invalid_coords
         /\ rows_written' = IF c.branch = "written" THEN rows_written + 1 ELSE rows_written
         /\ track' =
              IF c.branch = "written"
                THEN track \o <<Elem("when", ts_val),
                                Elem("gx:coord", CoordText(c.lon, c.lat, c.ele))>>
                ELSE track
  /\ UNCHANGED <<pc, csv_files, cur, fieldnames, ts_col, lat_col, lon_col, ele_col,
                 kml_files, stdout, exit_status, logs, log>>

----------------------------------------------------------------------------
(* csv_to_kml.py: the command-line converter *)

\* the KML document written to the output file, or no file
NoKml == [exists |-> FALSE, placemark |-> "", track |-> <<>>]

Kml(pm_name, tr) == [exists |-> TRUE, placemark |-> pm_name, track |-> tr]

\* the function is left, by a return or by an exception: its locals are gone
LocalsGone ==
  /\ fieldnames' = NoFieldnames
  /\ ts_col' = None
  /\ lat_col' = None
  /\ lon_col' = None
  /\ ele_col' = None
  /\ consumed' = <<>>
  /\ float_calls' = 0
  /\ track' = <<>>
  /\ rows_written' = 0
  /\ rows_skipped' = 0
  /\ rows_invalid_coords' = 0
  /\ total_rows' = 0
  /\ log' = <<>>

\* open(csv_file) and csv.DictReader(f).fieldnames; a failing open raises
CliOpen(H) ==
  /\ pc = "start"
  /\ \/ /\ \E hs \in H : fieldnames' = hs
        /\ pc' = "opened"
        /\ UNCHANGED exit_status
     \/ /\ pc' = "crashed"
        /\ exit_status' = 1
        /\ UNCHANGED fieldnames
  /\ UNCHANGED <<csv_files, cur, ts_col, lat_col, lon_col, ele_col, consumed, float_calls,
                 track, rows_written, rows_skipped, rows_invalid_coords, total_rows,
                 kml_files, stdout, logs, log>>

\* the four find_column calls, print_detected_columns, the abort, the empty track
CliResolve ==
  /\ pc = "opened"
  /\ LET t  == find_column(fieldnames, POSSIBLE_HEADERS.timestamp)
         la == find_column(fieldnames, POSSIBLE_HEADERS.latitude)
         lo == find_column(fieldnames, POSSIBLE_HEADERS.longitude)
         e  == find_column(fieldnames, POSSIBLE_HEADERS.elevation)
     IN  /\ ts_col' = t
         /\ lat_col' = la
         /\ lon_col' = lo
         /\ ele_col' = e
         /\ IF AllResolved(t, la, lo, e)
              THEN /\ stdout' = stdout \o <<"headers", "columns">>
                   /\ pc' = "rows"
                   /\ UNCHANGED exit_status
              ELSE /\ stdout' = stdout \o <<"headers", "columns", "error">>
                   /\ pc' = "exited"
                   /\ exit_status' = 1
  /\ track' = <<>>
  /\ rows_written' = 0
  /\ rows_skipped' = 0
  /\ rows_invalid_coords' = 0
  /\ total_rows' = 0
  /\ UNCHANGED <<csv_files, cur, fieldnames, consumed, float_calls, kml_files, logs, log>>

\* the reader is exhausted: the KML is written and the summary printed
CliFinish ==
  /\ pc = "rows"
  /\ \/ /\ kml_files' = [kml_files EXCEPT ![cur] = Kml("UAS", track)]
        /\ stdout' = stdout \o <<"finished", "counters">>
                            \o (IF rows_written = 0 THEN <<"warning">> ELSE <<>>)
        /\ pc' = "done"
        /\ exit_status' = 0
        /\ UNCHANGED <<fieldnames, ts_col, lat_col, lon_col, ele_col, consumed, float_calls,
                       track, rows_written, rows_skipped, rows_invalid_coords, total_rows,
                       log>>
     \/ /\ pc' = "crashed"
        /\ exit_status' = 1
        /\ LocalsGone
        /\ UNCHANGED <<kml_files, stdout>>
  /\ UNCHANGED <<csv_files, cur, logs>>

CliOpenRun == CliOpen(RunHeaderLists)

CliOpenAny == CliOpen(ResolveHeaderLists)

ReadRow == \E row \in Rows(TsCells, LatCells, LonCells, EleCells) : ProcessRow(row)

Init ==
  /\ pc = "start"
  /\ csv_files = <<1>>
  /\ cur = 1
  /\ fieldnames = NoFieldnames
  /\ ts_col = None
  /\ lat_col = None
  /\ lon_col = None
  /\ ele_col = None
  /\ consumed = <<>>
  /\ float_calls = 0
  /\ track = <<>>
  /\ rows_written = 0
  /\ rows_skipped = 0
  /\ rows_invalid_coords = 0
  /\ total_rows = 0
  /\ kml_files = <<NoKml>>
  /\ stdout = <<>>
  /\ exit_status = -1
  /\ logs = <<>>
  /\ log = <<>>

Next == CliOpenRun \/ CliResolve \/ ReadRow \/ CliFinish

Spec == Init /\ [][Next]_vars

NextResolve == CliOpenAny \/ CliResolve

SpecResolve == Init /\ [][NextResolve]_vars

----------------------------------------------------------------------------
(* csv-to-kml_iphone.py: the batch converter *)

\* one log that process_csv returned: its lines and, when the file was
\* converted, the four counters it reports
Entry(file, lines, counts) == [file |-> file, lines |-> lines, counts |-> counts]

\* process_csv returns and main's loop goes on to the next file, if any
Returned ==
  /\ IF cur < Len(csv_files)
       THEN cur' = cur + 1 /\ pc' = "start"
       ELSE pc' = "present" /\ UNCHANGED cur
  /\ LocalsGone

\* main up to its loop: the listing of the input directory
MainStart ==
  /\ pc = "main"
  /\ IF csv_files = <<>> THEN pc' = "no_files" ELSE pc' = "start"
  /\ logs' = <<>>
  /\ UNCHANGED <<csv_files, cur, fieldnames, ts_col, lat_col, lon_col, ele_col, consumed,
                 float_calls, track, rows_written, rows_skipped, rows_invalid_coords,
                 total_rows, kml_files, stdout, exit_status, log>>

\* process_csv: open(csv_file) and the reader's fieldnames; a failing open raises,
\* and nothing in process_csv or main catches it
BatchOpen(H) ==
  /\ pc = "start"
  /\ \/ /\ \E hs \in H : fieldnames' = hs
        /\ pc' = "opened"
     \/ /\ pc' = "crashed"
        /\ UNCHANGED fieldnames
  /\ UNCHANGED <<csv_files, cur, ts_col, lat_col, lon_col, ele_col, consumed, float_calls,
                 track, rows_written, rows_skipped, rows_invalid_coords, total_rows,
                 kml_files, stdout, exit_status, logs, log>>

\* process_csv: the four find_column calls, the log's first lines, the early return
BatchResolve ==
  /\ pc = "opened"
  /\ LET t  == find_column(fieldnames, POSSIBLE_HEADERS.timestamp)
         la == find_column(fieldnames, POSSIBLE_HEADERS.latitude)
         lo == find_column(fieldnames, POSSIBLE_HEADERS.longitude)
         e  == find_column(fieldnames, POSSIBLE_HEADERS.elevation)
     IN  IF AllResolved(t, la, lo, e)
           THEN /\ ts_col' = t
                /\ lat_col' = la
                /\ lon_col' = lo
                /\ ele_col' = e
                /\ log' = <<"processing", "columns">>
                /\ pc' = "rows"
                /\ track' = <<>>
                /\ rows_written' = 0
                /\ rows_skipped' = 0
                /\ rows_invalid_coords' = 0
                /\ total_rows' = 0
                /\ UNCHANGED <<cur, fieldnames, consumed, float_calls, logs>>
           ELSE /\ logs' = Append(logs, Entry(cur, <<"processing", "columns", "error">>, <<>>))
                /\ Returned
  /\ UNCHANGED <<csv_files, kml_files, stdout, exit_status>>

\* process_csv: the reader is exhausted, the KML is written, the log returned; a
\* failing open of the output file raises
BatchFinish ==
  /\ pc = "rows"
  /\ \/ /\ kml_files' = [kml_files EXCEPT ![cur] = Kml("Flight Path", track)]
        /\ logs' = Append(logs, Entry(cur, log \o <<"saved", "counters">>,
                                      <<total_rows, rows_written, rows_skipped,
                                        rows_invalid_coords>>))
        /\ Returned
     \/ /\ pc' = "crashed"
        /\ LocalsGone
        /\ UNCHANGED <<cur, kml_files, logs>>
  /\ UNCHANGED <<csv_files, stdout, exit_status>>

\* main after its loop: the summary of all logs is presented
MainPresent ==
  /\ pc = "present"
  /\ pc' = "done"
  /\ UNCHANGED <<csv_files, cur, fieldnames, ts_col, lat_col, lon_col, ele_col, consumed,
                 float_calls, track, rows_written, rows_skipped, rows_invalid_coords,
                 total_rows, kml_files, stdout, exit_status, logs, log>>

BatchOpenFile == BatchOpen(BatchHeaderLists)

BatchReadRow ==
  \E row \in Rows(BatchTsCells, BatchLatCells, BatchLonCells, BatchEleCells) : ProcessRow(row)

InitBatch ==
  /\ pc = "main"
  /\ \E n \in 0..MaxFiles :
       /\ csv_files = [i \in 1..n |-> i]
       /\ kml_files = [i \in 1..n |-> NoKml]
  /\ cur = 1
  /\ fieldnames = NoFieldnames
  /\ ts_col = None
  /\ lat_col = None
  /\ lon_col = None
  /\ ele_col = None
  /\ consumed = <<>>
  /\ float_calls = 0
  /\ track = <<>>
  /\ rows_written = 0
  /\ rows_skipped = 0
  /\ rows_invalid_coords = 0
  /\ total_rows = 0
  /\ stdout = <<>>
  /\ exit_status = -1
  /\ logs = <<>>
  /\ log = <<>>

NextBatch == MainStart \/ BatchOpenFile \/ BatchResolve \/ BatchReadRow \/ BatchFinish \/ MainPresent

SpecBatch == InitBatch /\ [][NextBatch]_vars

----------------------------------------------------------------------------
(* Properties.  They are stated on the cells of the rows read and on the
   headers of the file, not on the path the loop body took. *)

\* the run has detected its columns and has not left the function
Resolved == pc \in {"rows", "exited", "done"}

\* the detected column of a field
ColOf(f) ==
  CASE f = "timestamp" -> ts_col
    [] f = "latitude"  -> lat_col
    [] f = "longitude" -> lon_col
    [] f = "elevation" -> ele_col

\* the headers of the open file, as a set
HeaderSet == IF fieldnames = NoFieldnames THEN {} ELSE {fieldnames[i] : i \in 1..Len(fieldnames)}

\* the trimmed lower-cased forms of the headers
KeySet == {Lower(Strip(h)) : h \in HeaderSet}

\* the places, in priority order, of the aliases of f that equal a header's key
ExactAliases(f) ==
  {n \in 1..Len(POSSIBLE_HEADERS[f]) : POSSIBLE_HEADERS[f][n] \in KeySet}

\* the places of the aliases of f that some header's key contains
SubstrAliases(f) ==
  {n \in 1..Len(POSSIBLE_HEADERS[f]) : \E k \in KeySet : IsSubstr(POSSIBLE_HEADERS[f][n], k)}

\* the row read by the step, when the step read one
JustRead == Len(consumed') = Len(consumed) + 1

\* the trimmed timestamp cell of a row ("" when the cell is absent)
TsOf(row) == Strip(OrEmpty(Get(row, ts_col)))

LatOf(row) == ParseFloat(OrEmpty(Get(row, lat_col)))

LonOf(row) == ParseFloat(OrEmpty(Get(row, lon_col)))

EleOf(row) == ParseFloat(OrEmpty(Get(row, ele_col)))

AllParse(row) == LatOf(row).ok /\ LonOf(row).ok /\ EleOf(row).ok

ZeroCoord(row) == AllParse(row) /\ (IsZero(LatOf(row)) \/ IsZero(LonOf(row)))

MissingData(row) == TsOf(row) = <<>> \/ ~AllParse(row)

\* C1: every row read increments exactly one of rows_written, rows_skipped and
\* rows_invalid_coords, and their sum is total_rows, the number of rows read,
\* after each row and when the run ends.
C1_CountersPartitionRows ==
  /\ [](/\ rows_written + rows_skipped + rows_invalid_coords = total_rows
        /\ total_rows = Len(consumed))
  /\ [][JustRead =>
          /\ total_rows' = total_rows + 1
          /\ \/ /\ rows_written' = rows_written + 1
                /\ UNCHANGED <<rows_skipped, rows_invalid_coords>>
             \/ /\ rows_skipped' = rows_skipped + 1
                /\ UNCHANGED <<rows_written, rows_invalid_coords>>
             \/ /\ rows_invalid_coords' = rows_invalid_coords + 1
                /\ UNCHANGED <<rows_written, rows_skipped>>]_vars

\* a finished run of two rows, one skipped for invalid data and one for a zero coordinate
C1_Witness ==
  /\ pc = "done"
  /\ total_rows = 2
  /\ rows_skipped = 1
  /\ rows_invalid_coords = 1
  /\ ~AllParse(consumed[1]) /\ TsOf(consumed[1]) # <<>>

\* C2: when some alias of a field equals the key of a header, the detected
\* column is a header whose key equals the first such alias in priority order,
\* whatever the order of the headers and whatever the substring matches.
C2_ExactMatchWins ==
  Resolved =>
    \A f \in Fields :
      ExactAliases(f) # {} =>
        /\ ColOf(f) \in HeaderSet
        /\ Lower(Strip(ColOf(f))) = POSSIBLE_HEADERS[f][SetMin(ExactAliases(f))]

\* latitude has an exact match for "lat" only, while the higher-priority alias
\* "latitude" is contained in the header "latitude_x", which comes first
C2_Witness ==
  /\ Resolved
  /\ Len(fieldnames) >= 2
  /\ fieldnames[1] = H_latitude_x
  /\ ExactAliases("latitude") # {}
  /\ SetMin(ExactAliases("latitude")) = 2
  /\ 1 \in SubstrAliases("latitude")
  /\ Lower(Strip(lat_col)) = <<"l","a","t">>

\* C3: with no exact match, the detected column is, among the headers whose key
\* contains the first alias that any key contains, one whose key is shortest.
C3_ShortestKeyWins ==
  Resolved =>
    \A f \in Fields :
      (ExactAliases(f) = {} /\ SubstrAliases(f) # {}) =>
        LET name    == POSSIBLE_HEADERS[f][SetMin(SubstrAliases(f))]
            matches == {h \in HeaderSet : IsSubstr(name, Lower(Strip(h)))}
        IN  /\ ColOf(f) \in matches
            /\ \A h \in matches : Len(Lower(Strip(ColOf(f)))) <= Len(Lower(Strip(h)))

\* C4: when a field is unresolved the run aborts before any row is read: the
\* counters stay 0, no row is read, no KML file exists, the detected columns
\* have been printed and the exit status is 1.
C4_UnresolvedAborts ==
  (Resolved /\ \E f \in Fields : ColOf(f) = None) =>
    /\ pc = "exited"
    /\ exit_status = 1
    /\ total_rows = 0 /\ rows_written = 0 /\ rows_skipped = 0 /\ rows_invalid_coords = 0
    /\ consumed = <<>>
    /\ track = <<>>
    /\ \A i \in 1..Len(kml_files) : ~kml_files[i].exists
    /\ \E i \in 1..Len(stdout) : stdout[i] = "columns"

\* Scenario 2: timestamp, latitude, longitude and no elevation-like header
C4_Witness ==
  /\ pc = "exited"
  /\ fieldnames = <<H_timestamp, H_latitude, H_longitude>>
  /\ ts_col = H_timestamp /\ lat_col = H_latitude /\ lon_col = H_longitude
  /\ ele_col = None

\* C5 as stated: a row whose three numeric cells parse and whose latitude or
\* longitude is 0.0 is counted in rows_invalid_coords and nowhere else.
C5_ZeroCoordAlwaysCounted ==
  [][(JustRead /\ ZeroCoord(consumed'[Len(consumed')])) =>
       /\ rows_invalid_coords' = rows_invalid_coords + 1
       /\ UNCHANGED <<rows_skipped, rows_written, track>>]_vars

\* C5 amended: such a row whose trimmed timestamp is not empty is counted in
\* rows_invalid_coords and nowhere else, whatever its elevation.
C5_ZeroCoordWithTimestamp ==
  [][(JustRead /\ ZeroCoord(consumed'[Len(consumed')])
               /\ TsOf(consumed'[Len(consumed')]) # <<>>) =>
       /\ rows_invalid_coords' = rows_invalid_coords + 1
       /\ UNCHANGED <<rows_skipped, rows_written, track>>]_vars

\* a first row with a timestamp, latitude 0.0, a non-zero longitude and elevation 0.0
C5_Witness ==
  /\ pc = "rows"
  /\ Len(consumed) = 1
  /\ TsOf(consumed[1]) # <<>>
  /\ ZeroCoord(consumed[1])
  /\ IsZero(LatOf(consumed[1])) /\ ~IsZero(LonOf(consumed[1])) /\ IsZero(EleOf(consumed[1]))
  /\ rows_invalid_coords = 1 /\ rows_skipped = 0 /\ rows_written = 0 /\ track = <<>>

\* C6: a row is counted in rows_skipped exactly when its trimmed timestamp is
\* empty or one of its three numeric cells does not parse, also when a
\* coordinate is 0.0; it adds nothing to the track, float() is not called for
\* an empty timestamp, and the loop goes on.
C6_SkippedMissingExactly ==
  [][JustRead =>
       LET row == consumed'[Len(consumed')]
       IN  /\ (rows_skipped' = rows_skipped + 1) <=> MissingData(row)
           /\ rows_skipped' \in {rows_skipped, rows_skipped + 1}
           /\ MissingData(row) =>
                /\ UNCHANGED <<track, rows_written, rows_invalid_coords>>
                /\ pc' = "rows"
           /\ TsOf(row) = <<>> => float_calls' = 0]_vars

\* a row with latitude 0.0 and an elevation that is no number was skipped as
\* missing data, and the row after it was written
C6_Witness ==
  /\ Len(consumed) = 2
  /\ TsOf(consumed[1]) # <<>>
  /\ LatOf(consumed[1]).ok /\ IsZero(LatOf(consumed[1])) /\ LonOf(consumed[1]).ok
  /\ ~EleOf(consumed[1]).ok
  /\ rows_skipped = 1 /\ rows_invalid_coords = 0 /\ rows_written = 1
  /\ Len(track) = 2

\* the rows read that have a timestamp, three numbers and no zero coordinate
ValidRows == {i \in 1..Len(consumed) : ~MissingData(consumed[i]) /\ ~ZeroCoord(consumed[i])}

\* the k-th of them in input order
NthValid(k) == CHOOSE i \in ValidRows : Cardinality({j \in ValidRows : j <= i}) = k

C8_WarnsWhenNothingWritten ==
  /\ (pc = "done" /\ exit_status = 0 /\ rows_written = 0) =>
       \E i \in 1..Len(stdout) : stdout[i] = "warning"
  /\ \A n \in 1..Len(logs) :
       (logs[n].counts # <<>> /\ logs[n].counts[2] = 0) =>
         \E i \in 1..Len(logs[n].lines) : logs[n].lines[i] = "warning"

\* C9: when main has ended, however its files failed, every file of the batch
\* was attempted, and a main that ended normally holds one log for each file.
C9_BatchSurvivesFileFailure ==
  (pc \in {"done", "crashed"}) =>
    /\ cur = Len(csv_files)
    /\ pc = "done" => Len(logs) = Len(csv_files)

\* C10: when all four fields are resolved, the four columns are distinct headers.
C10_ColumnsDistinct ==
  (Resolved /\ \A f \in Fields : ColOf(f) # None) =>
    \A f, g \in Fields : f # g => ColOf(f) # ColOf(g)

====
